---------------------------- MODULE Spec2Model ----------------------------
(***************************************************************************)
(* plone.app.rsstile: the in-memory RSS feed cache of rss.py.              *)
(*                                                                         *)
(* FEED_DATA maps a feed URL to one RSSFeed object.  A tile looks its feed *)
(* up (creating it on first access, RSSTile._getFeed) and calls            *)
(* RSSFeed.update(), which decides from the failure flag, the time of the  *)
(* last retrieval and the reload timeout whether to call _retrieveFeed.    *)
(*                                                                         *)
(* Time is counted in whole minutes (time.time() / 60); all the clock      *)
(* reads one call makes before it reaches feedparser.parse fall into the   *)
(* same minute, the parse itself may take FetchTime minutes.               *)
(*                                                                         *)
(* An optional value is a sequence: <<>> is "absent" (None, a missing      *)
(* attribute or key), <<v>> is the value v.                                *)
(***************************************************************************)
EXTENDS Integers, Sequences, FiniteSets, TLC

VARIABLES
    FEED_DATA,  \* rss.py:20, the dict url -> RSSFeed
    clock,      \* time.time() / 60, the wall clock in minutes
    nextId,     \* the number of RSSFeed objects constructed so far
    call,       \* the operation just performed, its arguments and its result
    latest,     \* per URL, what feedparser.parse did in the latest attempt
    threads,    \* per request thread, the line it is at and its locals
    orphans,    \* the RSSFeed objects that FEED_DATA no longer holds, by id
    seen        \* what the template just read from a tile

vars == <<FEED_DATA, clock, nextId, call, latest, threads, orphans, seen>>

\* the state of the requests served one statement at a time
conc == <<threads, orphans, seen>>

---------------------------------------------------------------------------
(* Bounds of the model *)

\* the clock runs from StartTime to StartTime + MaxElapsed
MaxElapsed == 11

\* with two threads the clock runs from StartTime to StartTime +
\* MaxConcElapsed
MaxConcElapsed == 2

\* feedparser.parse takes 0..MaxFetchTime minutes
MaxFetchTime == 1

---------------------------------------------------------------------------
(* Program constants *)

\* RSSFeed.FAILURE_DELAY
FAILURE_DELAY == 10

\* the reload timeout RSSFeed.__init__ falls back to
DefaultTimeout == 100

\* the wall clock when the process starts: minutes since the epoch, a time
\* far larger than any configured timeout
StartTime == 1000

\* a tile's data: its feed URL and its reload timeout (IRSSTileSchema)
Tile(url, timeout) == [url |-> url, timeout |-> <<timeout>>]

\* the data of a tile without a timeout: self.data['timeout'] is None
TileNoTimeout(url) == [url |-> url, timeout |-> <<>>]

\* the tiles of the site: one left at the schema's default URL u'', and
\* two showing the same feed, one of them with its timeout set to 0
Tiles == {Tile("", 0), Tile("http://a", 0), Tile("http://a", 2)}

URLs == {t.url : t \in Tiles}

\* exception classes
NoExc == "none"
AttributeError == "AttributeError"
KeyError == "KeyError"
IndexError == "IndexError"
ParseError == "Exception"

\* ACCEPTED_FEEDPARSER_EXCEPTIONS
ACCEPTED_FEEDPARSER_EXCEPTIONS == {"CharacterEncodingOverride"}

---------------------------------------------------------------------------
(* What feedparser.parse can hand back *)

Link(h) == [href |-> h]

Entry(t, ls, d, u) == [title |-> t, links |-> ls, description |-> d, updated |-> u]

EntryA == Entry(<<"a">>, <<<<Link(<<"ha">>)>>>>, <<"da">>, <<>>)
EntryB == Entry(<<"b">>, <<<<Link(<<"hb">>)>>>>, <<>>, <<"2011-01-01">>)
EntryC == Entry(<<"c">>, <<<<Link(<<"hc">>), Link(<<"hc2">>)>>>>, <<>>, <<"garbage">>)
EntryNoTitle == Entry(<<>>, <<<<Link(<<"hx">>)>>>>, <<>>, <<>>)
EntryNoLinks == Entry(<<"x">>, <<>>, <<>>, <<>>)
EntryEmptyLinks == Entry(<<"x">>, <<<<>>>>, <<>>, <<>>)
EntryNoHref == Entry(<<"x">>, <<<<Link(<<>>)>>>>, <<>>, <<>>)

\* the strings DateTime() can parse
ParseableDates == {"2011-01-01"}

Doc(t, l, es) == [title |-> t, link |-> l, items |-> es]

\* the documents the remote feed may hold: complete ones, ones with
\* entries that lack a field, ones whose feed element lacks a field
FeedDocs ==
    { Doc(<<"t1">>, <<"l1">>, <<EntryA, EntryB>>),
      Doc(<<"t2">>, <<"l2">>,
          <<EntryB, EntryNoLinks, EntryNoTitle, EntryC, EntryNoHref>>),
      Doc(<<"t2">>, <<"l2">>, <<EntryC, EntryEmptyLinks, EntryA>>),
      Doc(<<>>, <<"l2">>, <<EntryA>>),
      Doc(<<"t2">>, <<>>, <<EntryA>>) }

\* what feedparser.parse(url) does: it raises, or it returns d with d.bozo,
\* d.bozo_exception, d.feed (title, link) and d['items']
Parsed(raises, bozo, bexc, doc) ==
    [raises |-> raises, bozo |-> bozo, bozo_exception |-> bexc, doc |-> doc]

NoDoc == Doc(<<>>, <<>>, <<>>)

\* the call of feedparser.parse that is never made
NotParsed == Parsed(NoExc, 0, "none", NoDoc)

ParseResults ==
    { Parsed(NoExc, 0, "none", d) : d \in FeedDocs }
      \cup { Parsed(NoExc, 1, "CharacterEncodingOverride", d) : d \in FeedDocs }
      \cup { Parsed(NoExc, 1, "SAXParseException", NoDoc),
             Parsed(NoExc, 1, "none", NoDoc),
             Parsed(ParseError, 0, "none", NoDoc) }

---------------------------------------------------------------------------
(* RSSFeed *)

\* `timeout or 100` with None for every timeout that is not positive
timeout_if_positive(timeout) ==
    IF timeout # <<>> /\ timeout[1] > 0 THEN timeout[1] ELSE DefaultTimeout

\* `timeout or 100` of RSSFeed.__init__: None (<<>>) and 0 are the values
\* Python takes for false; every other timeout is kept
timeout_or_100(timeout) ==
    IF timeout = <<>> \/ timeout = <<0>> THEN DefaultTimeout ELSE timeout[1]

\* __init__ with the time of creation for _last_update_time_in_minutes
RSSFeed_created_now(id, url, timeout) ==
    [ id |-> id,
      url |-> url,
      timeout |-> timeout_or_100(timeout),
      items |-> <<>>,
      title |-> "",
      siteurl |-> "",
      loaded |-> FALSE,
      failed |-> FALSE,
      last_update_time_in_minutes |-> clock,
      last_update_time |-> <<>> ]

\* RSSFeed.__init__, timeout being <<>> for None
RSSFeed(id, url, timeout) ==
    [ id |-> id,
      url |-> url,
      timeout |-> timeout_or_100(timeout),
      items |-> <<>>,
      title |-> "",
      siteurl |-> "",
      loaded |-> FALSE,
      failed |-> FALSE,
      last_update_time_in_minutes |-> 0,
      last_update_time |-> <<>> ]

\* ok without the test of loaded
ok_not_failed(self) == ~self.failed

\* RSSFeed.ok
ok(self) == (~self.failed) /\ self.loaded

\* needs_update with <= for <
needs_update_le(self, now) ==
    (self.last_update_time_in_minutes + self.timeout) <= now

\* needs_update with FAILURE_DELAY for the feed's timeout
needs_update_failure_delay(self, now) ==
    (self.last_update_time_in_minutes + FAILURE_DELAY) < now

\* RSSFeed.needs_update, with now = time.time() / 60
needs_update(self, now) ==
    (self.last_update_time_in_minutes + self.timeout) < now

\* the retry test with the feed's timeout for FAILURE_DELAY
retry_due_timeout(self, now) ==
    (self.last_update_time_in_minutes + self.timeout) < now

\* the retry test with <= for <
retry_due_le(self, now) ==
    (self.last_update_time_in_minutes + FAILURE_DELAY) <= now

\* update returning False for a failed feed whatever the time
retry_due_never(self, now) == FALSE

\* the retry test of RSSFeed.update for a feed whose last update failed
retry_due(self, now) ==
    (self.last_update_time_in_minutes + FAILURE_DELAY) < now

\* RSSFeed._buildItemDict: the item dict, or the exception it raises
_buildItemDict(item) ==
    IF item.links = <<>> THEN [exc |-> AttributeError, itemdict |-> <<>>]
    ELSE IF item.links[1] = <<>> THEN [exc |-> IndexError, itemdict |-> <<>>]
    ELSE IF item.links[1][1].href = <<>> THEN [exc |-> KeyError, itemdict |-> <<>>]
    ELSE IF item.title = <<>> THEN [exc |-> AttributeError, itemdict |-> <<>>]
    ELSE [ exc |-> NoExc,
           itemdict |->
             << [ title |-> item.title[1],
                  url |-> item.links[1][1].href[1],
                  summary |-> IF item.description = <<>> THEN ""
                              ELSE item.description[1],
                  updated |-> IF item.updated # <<>>
                                 /\ item.updated[1] \in ParseableDates
                              THEN item.updated
                              ELSE <<>> ] >> ]

\* the exceptions the item loop of _retrieveFeed skips an item for
skipped(exc) == exc \in {AttributeError, KeyError}

\* the item loop of _retrieveFeed from item i on, acc being self._items so
\* far: the list when the loop ends, and the exception that ended it
RECURSIVE build_items(_, _, _)
build_items(items, i, acc) ==
    IF i > Len(items) THEN [exc |-> NoExc, items |-> acc]
    ELSE LET r == _buildItemDict(items[i]) IN
         IF r.exc = NoExc THEN build_items(items, i + 1, Append(acc, r.itemdict[1]))
         ELSE IF skipped(r.exc) THEN build_items(items, i + 1, acc)
         ELSE [exc |-> r.exc, items |-> acc]

\* the opening of the retrieval without the assignment of _last_update_time
stamp_minutes_only(self, now) ==
    [self EXCEPT !.last_update_time_in_minutes = now]

\* the two assignments that open the retrieval of a feed with a URL
stamp(self, now) ==
    [self EXCEPT !.last_update_time_in_minutes = now,
                 !.last_update_time = <<now>>]

\* the bozo test without the list of accepted exceptions
rejected_any_bozo(d) == d.bozo = 1

\* the test of _retrieveFeed that rejects the parsed feed
rejected(d) ==
    d.bozo = 1 /\ d.bozo_exception \notin ACCEPTED_FEEDPARSER_EXCEPTIONS

\* RSSFeed._retrieveFeed with d what feedparser.parse does: the feed object
\* when the method is left, the value returned and the exception raised
_retrieveFeed(self, now, d) ==
    IF self.url # "" THEN
        LET s1 == stamp(self, now) IN
        IF d.raises # NoExc THEN [self |-> s1, ret |-> FALSE, exc |-> d.raises]
        ELSE IF rejected(d)
        THEN [ self |-> [s1 EXCEPT !.loaded = TRUE, !.failed = TRUE],
               ret |-> FALSE, exc |-> NoExc ]
        ELSE IF d.doc.title = <<>>
        THEN [self |-> s1, ret |-> FALSE, exc |-> AttributeError]
        ELSE LET s2 == [s1 EXCEPT !.title = d.doc.title[1]] IN
        IF d.doc.link = <<>>
        THEN [self |-> s2, ret |-> FALSE, exc |-> AttributeError]
        ELSE LET s3 == [s2 EXCEPT !.siteurl = d.doc.link[1]]
                 b == build_items(d.doc.items, 1, <<>>)
                 s4 == [s3 EXCEPT !.items = b.items]
             IN IF b.exc # NoExc
                THEN [self |-> s4, ret |-> FALSE, exc |-> b.exc]
                ELSE [ self |-> [s4 EXCEPT !.loaded = TRUE, !.failed = FALSE],
                       ret |-> TRUE, exc |-> NoExc ]
    ELSE [ self |-> [self EXCEPT !.loaded = TRUE, !.failed = TRUE],
           ret |-> FALSE, exc |-> NoExc ]

\* an except clause for the lookup errors only
caught_lookup_errors(exc) == exc \in {AttributeError, KeyError}

\* the exceptions the `except:` of RSSFeed.update catches
caught(exc) == TRUE

\* update returning, after an exception, the ok it read before it set
\* _failed
attempt_stale_ok(r) ==
    IF r.exc = NoExc
    THEN [ self |-> r.self, ret |-> r.ret, attempted |-> TRUE,
           exc |-> NoExc, raised |-> NoExc ]
    ELSE [ self |-> [r.self EXCEPT !.failed = TRUE], ret |-> ok(r.self),
           attempted |-> TRUE, exc |-> r.exc, raised |-> NoExc ]

\* an except clause that logs the exception and leaves _failed as it is
attempt_only_logs(r) ==
    IF r.exc = NoExc
    THEN [ self |-> r.self, ret |-> r.ret, attempted |-> TRUE,
           exc |-> NoExc, raised |-> NoExc ]
    ELSE [ self |-> r.self, ret |-> ok(r.self), attempted |-> TRUE,
           exc |-> r.exc, raised |-> NoExc ]

\* what RSSFeed.update does with the outcome r of _retrieveFeed
attempt(r) ==
    IF r.exc = NoExc
    THEN [ self |-> r.self, ret |-> r.ret, attempted |-> TRUE,
           exc |-> NoExc, raised |-> NoExc ]
    ELSE IF caught(r.exc)
    THEN LET s == [r.self EXCEPT !.failed = TRUE]
         IN [ self |-> s, ret |-> ok(s), attempted |-> TRUE,
              exc |-> r.exc, raised |-> NoExc ]
    ELSE [ self |-> r.self, ret |-> FALSE, attempted |-> TRUE,
           exc |-> r.exc, raised |-> r.exc ]

\* update without the branch for a feed whose last update failed
update_without_backoff(self, now, d) ==
    IF needs_update(self, now)
    THEN attempt(_retrieveFeed(self, now, d))
    ELSE [ self |-> self, ret |-> ok(self), attempted |-> FALSE,
           exc |-> NoExc, raised |-> NoExc ]

\* RSSFeed.update: the feed object afterwards, the value returned, whether
\* _retrieveFeed was called, the exception raised inside the try block and
\* the exception that left update, if any
update(self, now, d) ==
    IF self.failed
    THEN IF retry_due(self, now)
         THEN attempt(_retrieveFeed(self, now, d))
         ELSE [ self |-> self, ret |-> FALSE, attempted |-> FALSE,
                exc |-> NoExc, raised |-> NoExc ]
    ELSE IF needs_update(self, now)
    THEN attempt(_retrieveFeed(self, now, d))
    ELSE [ self |-> self, ret |-> ok(self), attempted |-> FALSE,
           exc |-> NoExc, raised |-> NoExc ]

---------------------------------------------------------------------------
(* RSSTile *)

\* _getFeed without the lookup: a new feed object on every call
_getFeed_always_new(data, tile) ==
    LET feed == RSSFeed(nextId + 1, tile.url, tile.timeout)
    IN [ data |-> (tile.url :> feed) @@ data, feed |-> feed,
         created |-> tile.url \notin DOMAIN data ]

\* RSSTile._getFeed of a tile with self.data = tile on the registry data:
\* the registry afterwards, the feed returned, whether it was created
_getFeed(data, tile) ==
    IF tile.url \in DOMAIN data
    THEN [data |-> data, feed |-> data[tile.url], created |-> FALSE]
    ELSE LET feed == RSSFeed(nextId + 1, tile.url, tile.timeout)
         IN [data |-> data @@ (tile.url :> feed), feed |-> feed, created |-> TRUE]

\* the record of an operation: the tile (or feed) it was called on, the feed
\* object it used, the clock when it began, what feedparser.parse did in it
\* and what it returned
Call(op, tile, g, d, ret, attempted, exc, raised) ==
    [ op |-> op, tile |-> tile, feed |-> g.feed.id, created |-> g.created,
      now |-> clock, d |-> d, ret |-> ret, attempted |-> attempted,
      exc |-> exc, raised |-> raised ]

NoCall ==
    [ op |-> "none", tile |-> Tile("", 0), feed |-> 0, created |-> FALSE,
      now |-> 0, d |-> NotParsed, ret |-> FALSE, attempted |-> FALSE,
      exc |-> NoExc, raised |-> NoExc ]

\* the request threads of the process
Threads == {1, 2}

\* a thread between two requests
Idle ==
    [ pc |-> "idle", tile |-> TileNoTimeout(""), absent |-> FALSE, self |-> 0,
      d |-> NotParsed, i |-> 0, old |-> <<<<>>, "", "", FALSE>> ]

\* nothing read since the last statement of a thread
NotSeen == [read |-> FALSE, feed |-> 0, items |-> <<>>, title |-> "", siteurl |-> ""]

Init ==
    /\ FEED_DATA = <<>>
    /\ clock = StartTime
    /\ nextId = 0
    /\ call = NoCall
    /\ latest = <<>>
    /\ threads = [t \in Threads |-> Idle]
    /\ orphans = <<>>
    /\ seen = NotSeen

\* whether RSSFeed.update on self reaches feedparser.parse
parses(self, now) ==
    /\ self.url # ""
    /\ IF self.failed THEN retry_due(self, now) ELSE needs_update(self, now)

\* RSSTile.update / deferred_update (and __call__): look the feed up and
\* update it; the parse, when it runs, does d and takes fetchTime minutes
deferred_update(tile) ==
    LET g == _getFeed(FEED_DATA, tile)
        fetch == parses(g.feed, clock)
    IN \E d \in IF fetch THEN ParseResults ELSE {NotParsed},
          fetchTime \in IF fetch THEN 0..MaxFetchTime ELSE {0} :
          LET u == update(g.feed, clock, d)
          IN /\ clock + fetchTime <= StartTime + MaxElapsed
             /\ FEED_DATA' = [g.data EXCEPT ![tile.url] = u.self]
             /\ nextId' = IF g.created THEN nextId + 1 ELSE nextId
             /\ clock' = clock + fetchTime
             /\ call' = Call("update", tile, g, d, u.ret, u.attempted, u.exc,
                              u.raised)
             /\ latest' = IF u.attempted
                           THEN (tile.url :> d) @@ latest
                           ELSE latest
             /\ UNCHANGED conc

\* RSSTile.feedAvailable / enabled
feedAvailable(tile) ==
    LET g == _getFeed(FEED_DATA, tile)
    IN /\ FEED_DATA' = g.data
       /\ nextId' = IF g.created THEN nextId + 1 ELSE nextId
       /\ clock' = clock
       /\ call' = Call("feedAvailable", tile, g, NotParsed, ok(g.feed), FALSE,
                        NoExc, NoExc)
       /\ latest' = latest
       /\ UNCHANGED conc

\* IFeed.needs_update read on a feed object of the registry
read_needs_update(url) ==
    /\ url \in DOMAIN FEED_DATA
    /\ LET self == FEED_DATA[url]
       IN call' = Call("needs_update", Tile(url, self.timeout),
                       [feed |-> self, created |-> FALSE], NotParsed,
                       needs_update(self, clock), FALSE, NoExc, NoExc)
    /\ UNCHANGED <<FEED_DATA, clock, nextId, latest>>
    /\ UNCHANGED conc

\* a minute passes between two requests
Tick ==
    /\ clock < StartTime + MaxElapsed
    /\ clock' = clock + 1
    /\ call' = NoCall
    /\ UNCHANGED <<FEED_DATA, nextId, latest>>
    /\ UNCHANGED conc

Next ==
    \/ \E tile \in Tiles : deferred_update(tile)
    \/ \E tile \in Tiles : feedAvailable(tile)
    \/ \E url \in URLs : read_needs_update(url)
    \/ Tick

Spec == Init /\ [][Next]_vars

\* the tiles of the first requests: timeouts that are absent, negative, zero
\* and positive
FreshTimeouts == {<<>>, <<-2>>, <<-1>>, <<0>>, <<1>>, <<2>>, <<DefaultTimeout>>}

FreshTiles ==
    {[url |-> "http://a", timeout |-> t] : t \in FreshTimeouts}
       \cup {TileNoTimeout("")}

\* requests of tiles with any timeout, which create the feeds, and the
\* updates of the tiles without one, no minute passing between them
NextFresh ==
    \/ \E tile \in FreshTiles : feedAvailable(tile)
    \/ \E url \in {"", "http://a"} : deferred_update(TileNoTimeout(url))
    \/ \E url \in {"", "http://a"} : read_needs_update(url)

SpecFresh == Init /\ [][NextFresh]_vars

\* the tiles of one feed, with timeouts 100 and 2
LiveTiles == {Tile("http://a", 0), Tile("http://a", 2)}

\* the last minute of the run
Horizon == StartTime + MaxElapsed

\* the tiles keep being rendered while the minutes pass
RenderLive == \E tile \in LiveTiles : deferred_update(tile)

NextLive == RenderLive \/ Tick

SpecLive ==
    Init /\ [][NextLive]_vars /\ WF_vars(Tick) /\ WF_vars(RenderLive)

---------------------------------------------------------------------------
(* Two request threads, one statement at a time *)

\* the tile both threads render
ConcTiles == {Tile("http://a", 1)}

\* what the remote feed may do while the threads run
ConcResults ==
    { Parsed(NoExc, 0, "none", Doc(<<"t1">>, <<"l1">>, <<EntryA, EntryB>>)),
      Parsed(NoExc, 0, "none",
             Doc(<<"t2">>, <<"l2">>, <<EntryC, EntryEmptyLinks, EntryA>>)),
      Parsed(NoExc, 0, "none", Doc(<<"t2">>, <<>>, <<EntryA>>)),
      Parsed(NoExc, 1, "SAXParseException", NoDoc) }

\* FEED_DATA.setdefault(url, RSSFeed(...)) in the place of the assignment
store_setdefault(data, tile) ==
    IF tile.url \in DOMAIN data
    THEN [data |-> data, feed |-> data[tile.url]]
    ELSE LET feed == RSSFeed(nextId + 1, tile.url, tile.timeout)
         IN [data |-> (tile.url :> feed) @@ data, feed |-> feed]

\* _getFeed, `feed = FEED_DATA[url] = RSSFeed(url, timeout)`: the new object
\* takes the place of whatever the dict holds for the url
create_and_store(data, tile) ==
    LET feed == RSSFeed(nextId + 1, tile.url, tile.timeout)
    IN [data |-> (tile.url :> feed) @@ data, feed |-> feed]

\* the RSSFeed object thread t holds in its local `feed`
held(t) ==
    LET url == threads[t].tile.url
    IN IF FEED_DATA[url].id = threads[t].self
       THEN FEED_DATA[url]
       ELSE orphans[threads[t].self]

\* thread t assigns attributes of the object it holds, which becomes s
assign(t, s) ==
    LET url == threads[t].tile.url
    IN IF FEED_DATA[url].id = s.id
       THEN /\ FEED_DATA' = [FEED_DATA EXCEPT ![url] = s]
            /\ orphans' = orphans
       ELSE /\ orphans' = [orphans EXCEPT ![s.id] = s]
            /\ FEED_DATA' = FEED_DATA

\* thread t is in the statements of _retrieveFeed after the test of bozo
in_flight(t) == threads[t].pc \in {"title", "siteurl", "reset", "item"}

\* the except clause of RSSFeed.update in thread t, which ends the request
except_in(t) ==
    /\ assign(t, [held(t) EXCEPT !.failed = TRUE])
    /\ threads' = [threads EXCEPT ![t] = Idle]

\* _getFeed, `feed = FEED_DATA.get(url, None)`, in a request of thread t
get_feed(t, tile) ==
    /\ threads[t].pc = "idle"
    /\ threads' = [threads EXCEPT ![t] =
          IF tile.url \in DOMAIN FEED_DATA
          THEN [Idle EXCEPT !.pc = "update", !.tile = tile,
                            !.self = FEED_DATA[tile.url].id]
          ELSE [Idle EXCEPT !.pc = "create", !.tile = tile, !.absent = TRUE]]
    /\ seen' = NotSeen
    /\ UNCHANGED <<FEED_DATA, clock, nextId, call, latest, orphans>>

\* _getFeed, `if feed is None: feed = FEED_DATA[url] = RSSFeed(...)`
create_feed(t) ==
    /\ threads[t].pc = "create"
    /\ LET url == threads[t].tile.url
           r == create_and_store(FEED_DATA, threads[t].tile)
       IN /\ FEED_DATA' = r.data
          /\ orphans' = IF url \in DOMAIN FEED_DATA
                            /\ FEED_DATA[url].id # r.feed.id
                         THEN (FEED_DATA[url].id :> FEED_DATA[url]) @@ orphans
                         ELSE orphans
          /\ nextId' = IF r.feed.id > nextId THEN nextId + 1 ELSE nextId
          /\ threads' = [threads EXCEPT ![t].pc = "update",
                                         ![t].self = r.feed.id]
    /\ seen' = NotSeen
    /\ UNCHANGED <<clock, call, latest>>

\* RSSFeed.update up to the test of bozo in _retrieveFeed: an update that
\* makes no attempt, or whose attempt ends there, is done; the others have
\* stamped the feed and go on to assign the data
begin_update(t) ==
    /\ threads[t].pc = "update"
    /\ LET self == held(t)
       IN \E d \in IF parses(self, clock) THEN ConcResults ELSE {NotParsed} :
             IF parses(self, clock) /\ d.raises = NoExc /\ ~rejected(d)
             THEN /\ assign(t, stamp(self, clock))
                  /\ threads' = [threads EXCEPT
                        ![t].pc = "title", ![t].d = d,
                        ![t].old = <<self.items, self.title, self.siteurl,
                                   ok(self)>>]
             ELSE /\ assign(t, update(self, clock, d).self)
                  /\ threads' = [threads EXCEPT ![t] = Idle]
    /\ seen' = NotSeen
    /\ UNCHANGED <<clock, nextId, call, latest>>

\* `self._title = d.feed.title`
assign_title(t) ==
    /\ threads[t].pc = "title"
    /\ LET d == threads[t].d
       IN IF d.doc.title = <<>>
          THEN except_in(t)
          ELSE /\ assign(t, [held(t) EXCEPT !.title = d.doc.title[1]])
               /\ threads' = [threads EXCEPT ![t].pc = "siteurl"]
    /\ seen' = NotSeen
    /\ UNCHANGED <<clock, nextId, call, latest>>

\* `self._siteurl = d.feed.link`
assign_siteurl(t) ==
    /\ threads[t].pc = "siteurl"
    /\ LET d == threads[t].d
       IN IF d.doc.link = <<>>
          THEN except_in(t)
          ELSE /\ assign(t, [held(t) EXCEPT !.siteurl = d.doc.link[1]])
               /\ threads' = [threads EXCEPT ![t].pc = "reset"]
    /\ seen' = NotSeen
    /\ UNCHANGED <<clock, nextId, call, latest>>

\* `self._items = []`
reset_items(t) ==
    /\ threads[t].pc = "reset"
    /\ assign(t, [held(t) EXCEPT !.items = <<>>])
    /\ threads' = [threads EXCEPT ![t].pc = "item", ![t].i = 1]
    /\ seen' = NotSeen
    /\ UNCHANGED <<clock, nextId, call, latest>>

\* one turn of `for item in d['items']`, or, after the last item, the
\* assignments of _loaded and _failed
next_item(t) ==
    /\ threads[t].pc = "item"
    /\ LET items == threads[t].d.doc.items
           i == threads[t].i
       IN IF i > Len(items)
          THEN /\ assign(t, [held(t) EXCEPT !.loaded = TRUE, !.failed = FALSE])
               /\ threads' = [threads EXCEPT ![t] = Idle]
          ELSE LET r == _buildItemDict(items[i])
               IN IF r.exc = NoExc
                  THEN /\ assign(t, [held(t) EXCEPT
                                       !.items = Append(@, r.itemdict[1])])
                       /\ threads' = [threads EXCEPT ![t].i = i + 1]
                  ELSE IF skipped(r.exc)
                  THEN /\ threads' = [threads EXCEPT ![t].i = i + 1]
                       /\ UNCHANGED <<FEED_DATA, orphans>>
                  ELSE except_in(t)
    /\ seen' = NotSeen
    /\ UNCHANGED <<clock, nextId, call, latest>>

\* the template reads RSSTile.items, display_title and siteurl
read_items(tile) ==
    LET g == _getFeed(FEED_DATA, tile)
    IN /\ FEED_DATA' = g.data
       /\ nextId' = IF g.created THEN nextId + 1 ELSE nextId
       /\ seen' = [ read |-> TRUE, feed |-> g.feed.id, items |-> g.feed.items,
                     title |-> g.feed.title, siteurl |-> g.feed.siteurl ]
       /\ UNCHANGED <<clock, call, latest, threads, orphans>>

\* a minute passes while the threads run
minute_passes ==
    /\ clock < StartTime + MaxConcElapsed
    /\ clock' = clock + 1
    /\ seen' = NotSeen
    /\ UNCHANGED <<FEED_DATA, nextId, call, latest, threads, orphans>>

NextConc ==
    \/ \E t \in Threads, tile \in ConcTiles : get_feed(t, tile)
    \/ \E t \in Threads : create_feed(t)
    \/ \E t \in Threads : begin_update(t)
    \/ \E t \in Threads : assign_title(t)
    \/ \E t \in Threads : assign_siteurl(t)
    \/ \E t \in Threads : reset_items(t)
    \/ \E t \in Threads : next_item(t)
    \/ \E tile \in ConcTiles : read_items(tile)
    \/ minute_passes

SpecConc == Init /\ [][NextConc]_vars

---------------------------------------------------------------------------
(* Properties *)

\* the feed object the operation recorded in call used, as it is now
feed_of_call == FEED_DATA[call.tile.url]

\* the feed object an operation of tile is about to use, as it is before
feed_before(tile) == _getFeed(FEED_DATA, tile).feed

\* the data a tile displays from a feed object
shown(self) == <<self.items, self.title, self.siteurl>>

\* an update() that called _retrieveFeed and did not succeed
attempt_failed(c) == c.op = "update" /\ c.attempted /\ ~c.ret

\* minutes from the last retrieval of self to the time now
elapsed(self, now) == now - self.last_update_time_in_minutes

\* C1: the boolean update() returns is the value of ok on the feed right
\* after the call, whatever update() did (no attempt, success, rejected
\* feed, empty URL, exception).
C1_ReturnsOk ==
    call.op = "update" => call.ret = ok(feed_of_call)

\* C1 witness: an update() whose attempt raised on a feed that was ok
\* before (it holds data) has returned.
C1_Witness ==
    /\ call.op = "update"
    /\ call.exc # NoExc
    /\ feed_of_call.loaded
    /\ feed_of_call.items # <<>>

\* C2 as claimed: an update() whose attempt failed leaves items, title and
\* siteurl as they were, and one whose attempt succeeded holds the title,
\* the link and the items of the parsed document.
C2_FailedAttemptKeepsData ==
    [][\A tile \in Tiles :
         (call'.op = "update" /\ call'.tile = tile /\ call'.attempted) =>
            IF call'.ret
            THEN \E d \in FeedDocs :
                    /\ d.title # <<>> /\ d.link # <<>>
                    /\ shown(FEED_DATA'[tile.url]) =
                          <<build_items(d.items, 1, <<>>).items, d.title[1], d.link[1]>>
            ELSE shown(FEED_DATA'[tile.url]) = shown(feed_before(tile))]_vars

\* C3: update() on a feed whose last update failed, called fewer than
\* FAILURE_DELAY minutes after the last retrieval, does not call
\* _retrieveFeed, returns False and changes no attribute of the feed.
C3_BackoffChangesNothing ==
    [][\A tile \in Tiles :
         ( /\ call'.op = "update" /\ call'.tile = tile
           /\ feed_before(tile).failed
           /\ elapsed(feed_before(tile), clock) < FAILURE_DELAY )
         => ( /\ ~call'.attempted
              /\ call'.ret = FALSE
              /\ call'.raised = NoExc
              /\ FEED_DATA'[tile.url] = feed_before(tile) )]_vars

\* C3 witness: an update() has just returned without an attempt on a failed
\* feed retrieved 5 minutes before.
C3_Witness ==
    /\ call.op = "update"
    /\ ~call.attempted
    /\ feed_of_call.failed
    /\ elapsed(feed_of_call, call.now) = 5

\* C4: no exception leaves update(); when one is raised inside the attempt
\* (by the parser, by d.feed or by an item), the feed is failed afterwards
\* and update() has returned False.
C4_NeverRaises ==
    call.op = "update" =>
        /\ call.raised = NoExc
        /\ call.ret \in BOOLEAN
        /\ call.exc # NoExc => (feed_of_call.failed /\ call.ret = FALSE)

\* C4 witness: an update() in which an item raised IndexError has returned.
C4_Witness ==
    call.op = "update" /\ call.exc = IndexError /\ call.raised = NoExc

\* C5 as claimed: a feed is unloaded, loaded and ok, or loaded and failed,
\* never failed and not loaded; after an attempt it is loaded.
C5_FailedImpliesLoaded ==
    /\ \A url \in DOMAIN FEED_DATA :
          FEED_DATA[url].failed => FEED_DATA[url].loaded
    /\ (call.op = "update" /\ call.attempted) => feed_of_call.loaded

\* C6 as claimed: every attempt, the one of a feed with an empty URL
\* included, sets both timestamps to the time at which it began.
C6_EveryAttemptStamps ==
    (call.op = "update" /\ call.attempted) =>
        /\ feed_of_call.last_update_time_in_minutes = call.now
        /\ feed_of_call.last_update_time = <<call.now>>

\* C6 amended: every attempt on a feed with a URL sets both timestamps to
\* the time at which it began, whatever the parse then does and however
\* long it takes; an attempt on a feed with an empty URL leaves both
\* timestamps as they were (0 and None).
C6_AttemptWithUrlStamps ==
    (call.op = "update" /\ call.attempted) =>
        IF call.tile.url # ""
        THEN /\ feed_of_call.last_update_time_in_minutes = call.now
             /\ feed_of_call.last_update_time = <<call.now>>
        ELSE /\ feed_of_call.last_update_time_in_minutes = 0
             /\ feed_of_call.last_update_time = <<>>

\* C6 witness: an attempt that began a minute ago has failed.
C6_Witness ==
    /\ attempt_failed(call)
    /\ call.tile.url # ""
    /\ clock > call.now
    /\ feed_of_call.last_update_time_in_minutes = call.now

\* C7: ok is true exactly when failed is false and loaded is true, for every
\* feed of the registry and for the value a tile reads.
C7_OkIffLoadedNotFailed ==
    /\ \A url \in DOMAIN FEED_DATA :
          ok(FEED_DATA[url]) <=>
             (FEED_DATA[url].failed = FALSE /\ FEED_DATA[url].loaded = TRUE)
    /\ call.op = "feedAvailable" =>
          (call.ret <=> (feed_of_call.failed = FALSE /\ feed_of_call.loaded = TRUE))

\* C7 witness: a tile has read ok = False from a feed that is loaded and
\* failed while another feed is ok.
C7_Witness ==
    /\ call.op = "feedAvailable"
    /\ call.ret = FALSE
    /\ feed_of_call.loaded /\ feed_of_call.failed
    /\ \E url \in DOMAIN FEED_DATA : ok(FEED_DATA[url])

\* C8: the registry holds one feed object per URL requested so far; a
\* lookup of a registered URL returns the object registered, with the
\* timeout of the call that created it, whatever timeout the tile has; a
\* lookup of a new URL adds one new object; no object is removed or replaced.
C8_OneFeedPerUrl ==
    [][ /\ \A url \in DOMAIN FEED_DATA :
              /\ url \in DOMAIN FEED_DATA'
              /\ FEED_DATA'[url].id = FEED_DATA[url].id
              /\ FEED_DATA'[url].timeout = FEED_DATA[url].timeout
        /\ \A url \in DOMAIN FEED_DATA' : FEED_DATA'[url].url = url
        /\ \A u1, u2 \in DOMAIN FEED_DATA' :
              FEED_DATA'[u1].id = FEED_DATA'[u2].id => u1 = u2
        /\ \A tile \in Tiles :
              (call'.op \in {"update", "feedAvailable"} /\ call'.tile = tile) =>
                 /\ DOMAIN FEED_DATA' = DOMAIN FEED_DATA \cup {tile.url}
                 /\ call'.feed = FEED_DATA'[tile.url].id
                 /\ call'.created = (tile.url \notin DOMAIN FEED_DATA)
                 /\ call'.created =>
                       FEED_DATA'[tile.url].timeout =
                          (IF tile.timeout # <<0>> THEN tile.timeout[1] ELSE DefaultTimeout)
      ]_vars

\* C8 witness: a tile with another timeout than the one the feed was
\* created with has looked the feed up and got the registered object.
C8_Witness ==
    /\ call.op = "update"
    /\ ~call.created
    /\ call.tile.timeout = <<2>>
    /\ feed_of_call.timeout = DefaultTimeout
    /\ call.feed = feed_of_call.id
    /\ Cardinality(DOMAIN FEED_DATA) = 2

\* C9 as claimed: needs_update is true exactly when the time since the last
\* retrieval is at least the timeout.
C9_NeedsUpdateAtLeast ==
    call.op = "needs_update" =>
        (call.ret <=> elapsed(feed_of_call, call.now) >= feed_of_call.timeout)

\* C9 amended: needs_update is true exactly when the time since the last
\* retrieval is more than the timeout (false when it equals the timeout),
\* and reading it changes no attribute of the feed.
C9_NeedsUpdateMoreThan ==
    [][\A url \in URLs :
         (call'.op = "needs_update" /\ call'.tile.url = url) =>
            /\ FEED_DATA' = FEED_DATA
            /\ call'.ret <=>
                  (elapsed(FEED_DATA[url], clock) > FEED_DATA[url].timeout)]_vars

\* C9 witness: needs_update was read False exactly timeout minutes after the
\* last retrieval.
C9_Witness ==
    /\ call.op = "needs_update"
    /\ elapsed(feed_of_call, call.now) = feed_of_call.timeout
    /\ call.ret = FALSE

\* C10 as claimed: update() on a failed feed calls _retrieveFeed exactly
\* when at least FAILURE_DELAY minutes have passed since the last retrieval.
C10_RetryAtLeastDelay ==
    [][\A tile \in Tiles :
         ( /\ call'.op = "update" /\ call'.tile = tile
           /\ feed_before(tile).failed )
         => (call'.attempted <=>
                elapsed(feed_before(tile), clock) >= FAILURE_DELAY)]_vars

\* C10 amended: update() on a failed feed calls _retrieveFeed exactly when
\* more than FAILURE_DELAY minutes have passed since the last retrieval (not
\* when exactly FAILURE_DELAY have), whatever the feed's timeout.
C10_RetryMoreThanDelay ==
    [][\A tile \in Tiles :
         ( /\ call'.op = "update" /\ call'.tile = tile
           /\ feed_before(tile).failed )
         => (call'.attempted <=>
                elapsed(feed_before(tile), clock) > FAILURE_DELAY)]_vars

\* C10 witness: update() made no attempt on a failed feed with timeout 2
\* exactly FAILURE_DELAY minutes after its last retrieval.
C10_Witness ==
    /\ call.op = "update"
    /\ ~call.attempted
    /\ feed_of_call.failed
    /\ feed_of_call.timeout < FAILURE_DELAY
    /\ elapsed(feed_of_call, call.now) = FAILURE_DELAY

\* the parsed feed is malformed and its defect is not an accepted one
malformed_unlisted(d) ==
    d.bozo = 1 /\ d.bozo_exception # "CharacterEncodingOverride"

\* a source entry with the fields an item needs: a title and a first link
\* with an href
has_required_fields(e) ==
    /\ e.title # <<>>
    /\ e.links # <<>>
    /\ e.links[1] # <<>>
    /\ e.links[1][1].href # <<>>

\* the item of a source entry that has the fields
item_of(e) ==
    [ title |-> e.title[1],
      url |-> e.links[1][1].href[1],
      summary |-> IF e.description = <<>> THEN "" ELSE e.description[1],
      updated |-> IF e.updated = <<"2011-01-01">> THEN e.updated ELSE <<>> ]

\* the items of the source entries that have the fields, in feed order
items_of(es) ==
    LET kept == SelectSeq(es, has_required_fields)
    IN [i \in 1..Len(kept) |-> item_of(kept[i])]

\* a document with a feed title and a feed link
has_head(doc) == doc.title # <<>> /\ doc.link # <<>>

\* what a tile shows of a document
shown_of(doc) == <<items_of(doc.items), doc.title[1], doc.link[1]>>

\* an update() of tile on a feed with a URL in which feedparser.parse
\* returned a parsed feed
parsed_in(c, tile) ==
    /\ c.op = "update" /\ c.tile = tile /\ c.attempted
    /\ tile.url # "" /\ c.d.raises = NoExc

\* a step leaves every registered feed alone, but for the one an update()
\* makes an attempt on
others_unchanged ==
    \A url \in DOMAIN FEED_DATA :
       (call'.op = "update" /\ call'.tile.url = url /\ call'.attempted)
          \/ (url \in DOMAIN FEED_DATA' /\ FEED_DATA'[url] = FEED_DATA[url])

\* C11 as claimed: after a parse that reports a defect not on the accepted
\* list the feed is loaded and failed, update() returns False and the data
\* are untouched; after any other parse the feed is loaded and not failed
\* and update() returns True.
C11_BozoDecidesOutcome ==
    [][\A tile \in Tiles :
         parsed_in(call', tile) =>
            LET self == FEED_DATA'[tile.url]
            IN IF malformed_unlisted(call'.d)
               THEN /\ self.loaded /\ self.failed /\ call'.ret = FALSE
                    /\ shown(self) = shown(feed_before(tile))
               ELSE self.loaded /\ ~self.failed /\ call'.ret = TRUE]_vars

\* C11 amended: after a parse that reports a defect not on the accepted
\* list the feed is loaded and failed, update() returns False and the data
\* are untouched; after any other parse the title, the link and the items
\* are read, and unless that raises an exception the feed is loaded and not
\* failed, update() returns True and the data are those of the document; if
\* it raises, the feed is failed and update() returns False.
C11_BozoOrErrorDecidesOutcome ==
    [][\A tile \in Tiles :
         parsed_in(call', tile) =>
            LET self == FEED_DATA'[tile.url]
            IN IF malformed_unlisted(call'.d)
               THEN /\ self.loaded /\ self.failed /\ call'.ret = FALSE
                    /\ call'.exc = NoExc
                    /\ shown(self) = shown(feed_before(tile))
               ELSE IF call'.exc = NoExc
               THEN /\ self.loaded /\ ~self.failed /\ call'.ret = TRUE
                    /\ has_head(call'.d.doc)
                    /\ shown(self) = shown_of(call'.d.doc)
               ELSE self.failed /\ call'.ret = FALSE]_vars

\* C11 witness: a feed that holds items was parsed again, the parser
\* reported a SAXParseException and update() returned False.
C11_Witness ==
    /\ call.op = "update" /\ call.attempted
    /\ call.d.bozo = 1 /\ call.d.bozo_exception = "SAXParseException"
    /\ feed_of_call.items # <<>>
    /\ feed_of_call.failed /\ call.ret = FALSE

latest_failed(url) ==
    /\ url \in DOMAIN latest
    /\ \/ latest[url].raises # NoExc
       \/ malformed_unlisted(latest[url])
       \/ ~has_head(latest[url].doc)
       \/ \E i \in 1..Len(latest[url].doc.items) :
             latest[url].doc.items[i].links = <<<<>>>>

\* C15 as claimed: when update() has made an attempt that failed at time t,
\* the next update() of the same feed makes no attempt before t +
\* FAILURE_DELAY, the feed with the empty URL included.
C15_NoRetryBeforeDelay ==
    [][( /\ attempt_failed(call)
         /\ call'.op = "update" /\ call'.tile.url = call.tile.url
         /\ clock < call.now + FAILURE_DELAY )
       => ~call'.attempted]_vars

\* C15 amended: an attempt on a feed with a URL that fails at time t (the
\* time it began) leaves the feed failed and stamped t; until the next
\* attempt nothing changes the feed; and update() makes no attempt on a
\* failed feed with a URL up to t + FAILURE_DELAY.  (The feed with the empty
\* URL is never stamped: every update() runs its attempt again.)
C15_NoRetryBeforeDelayWithUrl ==
    [][ /\ others_unchanged
        /\ \A tile \in Tiles :
              tile.url # "" =>
                 /\ (attempt_failed(call') /\ call'.tile = tile) =>
                       /\ FEED_DATA'[tile.url].failed
                       /\ FEED_DATA'[tile.url].last_update_time_in_minutes = clock
                 /\ ( /\ call'.op = "update" /\ call'.tile = tile
                      /\ feed_before(tile).failed
                      /\ clock <= feed_before(tile).last_update_time_in_minutes
                                     + FAILURE_DELAY )
                    => ~call'.attempted
      ]_vars

\* C15 witness: nine minutes after an attempt on a feed failed, an update()
\* of a tile with timeout 2 has returned without an attempt.
C15_Witness ==
    /\ call.op = "update" /\ ~call.attempted
    /\ call.tile = Tile("http://a", 2)
    /\ latest_failed("http://a")
    /\ feed_of_call.timeout = 2
    /\ elapsed(feed_of_call, call.now) = FAILURE_DELAY - 1

\* C16: an attempt that succeeds at time t (the time it began) leaves the
\* feed ok and stamped t; until the next attempt nothing changes the feed;
\* and update() on a feed that is ok, called fewer than timeout minutes
\* after t, makes no attempt, returns True and changes no attribute.
C16_FreshFeedNotRefetched ==
    [][ /\ others_unchanged
        /\ \A tile \in Tiles :
              /\ ( /\ call'.op = "update" /\ call'.tile = tile
                   /\ call'.attempted /\ call'.ret )
                 => /\ ok(FEED_DATA'[tile.url])
                    /\ FEED_DATA'[tile.url].last_update_time_in_minutes = clock
              /\ ( /\ call'.op = "update" /\ call'.tile = tile
                   /\ ok(feed_before(tile))
                   /\ elapsed(feed_before(tile), clock) < feed_before(tile).timeout )
                 => /\ ~call'.attempted
                    /\ call'.ret = TRUE
                    /\ FEED_DATA'[tile.url] = feed_before(tile)
      ]_vars

\* C16 witness: eleven minutes after a successful fetch an update() on the
\* feed, whose timeout is 100, has returned True without an attempt.
C16_Witness ==
    /\ call.op = "update" /\ ~call.attempted /\ call.ret = TRUE
    /\ feed_of_call.timeout = DefaultTimeout
    /\ feed_of_call.items # <<>>
    /\ elapsed(feed_of_call, call.now) = FAILURE_DELAY + 1

\* C20: whenever a feed is ok, and whenever a tile reads ok as True, the
\* latest attempt on the feed parsed an accepted document with a title and a
\* link, and items, title and siteurl are those of that document.
C20_OkMeansLatestData ==
    /\ \A url \in DOMAIN FEED_DATA :
          ok(FEED_DATA[url]) =>
             /\ url \in DOMAIN latest
             /\ ~latest_failed(url)
             /\ shown(FEED_DATA[url]) = shown_of(latest[url].doc)
    /\ (call.op = "feedAvailable" /\ call.ret) =>
          /\ ~latest_failed(call.tile.url)
          /\ shown(feed_of_call) = shown_of(latest[call.tile.url].doc)

\* C20 witness: a tile reads ok as True from a feed whose latest attempt,
\* made after the feed's first one, fetched the document with skipped
\* entries.
C20_Witness ==
    /\ call.op = "feedAvailable" /\ call.ret
    /\ feed_of_call.last_update_time_in_minutes > StartTime
    /\ Len(latest[call.tile.url].doc.items) = 5
    /\ Len(feed_of_call.items) = 2

\* C13 as claimed: a feed created with a timeout that is zero, negative or
\* absent has timeout 100, and one created with a positive timeout has that
\* timeout.
C13_NonPositiveBecomes100 ==
    (call.op # "none" /\ call.created) =>
       feed_of_call.timeout =
          IF call.tile.timeout # <<>> /\ call.tile.timeout[1] > 0
          THEN call.tile.timeout[1] ELSE DefaultTimeout

\* C13 amended: a feed created with a timeout that is zero or absent has
\* timeout 100, and one created with any other timeout, positive or
\* negative, has that timeout; with a negative timeout needs_update is True
\* from the moment an attempt has stamped the feed.
C13_ZeroOrAbsentBecomes100 ==
    /\ (call.op # "none" /\ call.created) =>
          feed_of_call.timeout =
             IF call.tile.timeout = <<>> \/ call.tile.timeout[1] = 0
             THEN DefaultTimeout ELSE call.tile.timeout[1]
    /\ \A url \in DOMAIN FEED_DATA :
          /\ FEED_DATA[url].timeout # 0
          /\ (FEED_DATA[url].timeout < 0 /\ url # "") =>
                FEED_DATA[url].last_update_time_in_minutes
                   + FEED_DATA[url].timeout < clock

\* C13 witness: the first request for the URL came from a tile with timeout
\* -1 and the feed it created has timeout -1.
C13_Witness ==
    /\ call.op = "feedAvailable" /\ call.created
    /\ call.tile.timeout = <<-1>>
    /\ feed_of_call.timeout = -1

live_feed == FEED_DATA["http://a"]

\* the feed is failed and its FAILURE_DELAY ends within the run
failed_in_backoff ==
    /\ "http://a" \in DOMAIN FEED_DATA
    /\ live_feed.failed
    /\ live_feed.last_update_time_in_minutes + FAILURE_DELAY < Horizon

\* the feed is failed and its FAILURE_DELAY is over
retry_is_due ==
    /\ "http://a" \in DOMAIN FEED_DATA
    /\ live_feed.failed
    /\ live_feed.last_update_time_in_minutes + FAILURE_DELAY < clock

\* the feed is ok and its timeout ends within the run
ok_in_timeout ==
    /\ "http://a" \in DOMAIN FEED_DATA
    /\ ok(live_feed)
    /\ live_feed.last_update_time_in_minutes + live_feed.timeout < Horizon

\* the feed is ok and its timeout is over
refresh_is_due ==
    /\ "http://a" \in DOMAIN FEED_DATA
    /\ ok(live_feed)
    /\ live_feed.last_update_time_in_minutes + live_feed.timeout < clock

\* update() has just made an attempt on the feed
attempt_made ==
    /\ call.op = "update" /\ call.attempted
    /\ live_feed.last_update_time_in_minutes = call.now

\* C17: while the tiles keep being rendered and time passes, a failed feed
\* reaches the end of its FAILURE_DELAY and then gets a new attempt, and an
\* ok feed reaches the end of its timeout and then gets one (when these fall
\* within the run); an attempt on a failed feed that fetches a sound
\* document leaves the feed ok with the data of the document, and an attempt
\* on an ok feed that fails leaves it failed.
C17_FailedFeedIsRetried ==
    /\ failed_in_backoff ~> retry_is_due
    /\ retry_is_due ~> attempt_made
    /\ ok_in_timeout ~> refresh_is_due
    /\ refresh_is_due ~> attempt_made
    /\ [][\A tile \in LiveTiles :
            (call'.op = "update" /\ call'.tile = tile /\ call'.attempted) =>
               /\ ( /\ feed_before(tile).failed
                    /\ ~latest_failed(tile.url)' )
                  => /\ ok(FEED_DATA'[tile.url])
                     /\ call'.ret = TRUE
                     /\ shown(FEED_DATA'[tile.url]) = shown_of(call'.d.doc)
               /\ ( /\ ok(feed_before(tile))
                    /\ latest_failed(tile.url)' )
                  => /\ FEED_DATA'[tile.url].failed
                     /\ ~ok(FEED_DATA'[tile.url])
                     /\ call'.ret = FALSE]_vars

\* C17 witness: a feed with timeout 100 whose first attempt failed has been
\* fetched again, successfully, and is ok.
C17_Witness ==
    /\ call.op = "update" /\ ~call.created /\ call.attempted /\ call.ret
    /\ feed_of_call.timeout = DefaultTimeout
    /\ ok(feed_of_call)
    /\ call.now > StartTime + FAILURE_DELAY

\* threads t1 and t2 both found the url absent in FEED_DATA.get and both
\* have created their feed
both_created(t1, t2) ==
    /\ t1 # t2
    /\ threads[t1].absent /\ threads[t2].absent
    /\ threads[t1].tile.url = threads[t2].tile.url
    /\ threads[t1].self # 0 /\ threads[t2].self # 0

\* C18: when two threads have both found the URL absent and both created a
\* feed, they hold two distinct RSSFeed objects, FEED_DATA holds the one
\* stored later and the other is in the dict no more.
C18_RaceLeavesTwoFeeds ==
    \A t1, t2 \in Threads :
       both_created(t1, t2) =>
          /\ threads[t1].self # threads[t2].self
          /\ threads[t1].self < threads[t2].self =>
                /\ FEED_DATA[threads[t1].tile.url].id = threads[t2].self
                /\ threads[t1].self \in DOMAIN orphans
                /\ held(t1) = orphans[threads[t1].self]
                /\ held(t2) = FEED_DATA[threads[t2].tile.url]

\* C18 witness: both threads found http://a absent; thread 1 stored feed 1,
\* thread 2 stored feed 2 over it, and each is assigning the data of its own
\* fetch to its own feed.
C18_Witness ==
    /\ both_created(1, 2)
    /\ threads[1].self = 1 /\ threads[2].self = 2
    /\ FEED_DATA["http://a"].id = 2
    /\ in_flight(1) /\ in_flight(2)
    /\ orphans[1].title = "t1"
    /\ FEED_DATA["http://a"].title = "t2"

\* C19 as claimed: what the template reads from a feed that was ok and held
\* items before, while one thread (the other being idle) is assigning the data of
\* a fetch to it, is the complete list of items from
\* before the fetch or the complete list of the fetch, never another list,
\* and never the title of the fetch with the items from before it.
C19_ReaderSeesWholeData ==
    seen.read =>
       \A t \in Threads :
          ( /\ in_flight(t) /\ threads[t].self = seen.feed
            /\ threads[t].old[1] # <<>> /\ threads[t].old[4]
            /\ \A u \in Threads \ {t} : threads[u].pc = "idle" ) =>
             LET old_items == threads[t].old[1]
                 old_title == threads[t].old[2]
                 doc == threads[t].d.doc
             IN /\ seen.items \in {old_items, items_of(doc.items)}
                /\ ~ ( /\ doc.title # <<>>
                       /\ seen.title = doc.title[1]
                       /\ seen.title # old_title
                       /\ seen.items = old_items
                       /\ seen.items # items_of(doc.items) )

=============================================================================
